---- MODULE Spec2Model ----
(***************************************************************************)
(* AstroLuna Advanced (bot_advanced.py): the chart computation engine and   *)
(* the conversation that feeds it.                                         *)
(*                                                                         *)
(*   SpecAspect   the angular separation and the aspect label of one body  *)
(*                (compute_synastry_and_summary, lines 328-341)            *)
(*   SpecParse    parse_input_flexible on texts built from pieces          *)
(*   SpecTime     convert_local_to_jd_with_tz and its caller's fallback    *)
(*   SpecChart    the natal loop and the synastry loops over PLANETS       *)
(*   SpecSession  one conversation: cmd_start, callback_query_handler and  *)
(*                message_router over context.user_data                    *)
(*                                                                         *)
(* Longitudes are whole degrees; instants are whole minutes counted from   *)
(* julian day 2451000.0, so hour + minute/60 is kept exactly.              *)
(* Strings are sequences of one-character strings.                         *)
(***************************************************************************)
EXTENDS Integers, Sequences, FiniteSets, TLC

VARIABLES
    pc,       \* position of the operation under way
    a,        \* longitude of the body in the first map  (line 324)
    b,        \* longitude of the body in the second map (line 325)
    diff,     \* line 328
    mood,     \* lines 330-341
    jd_a,     \* the instant of the (first) chart, an index of Ephemeris
    jd_b,     \* the instant of the second chart
    idx,      \* position of the loop over PLANETS under way
    planet_positions,  \* line 217
    planet_signs,      \* line 218
    faults,   \* the bodies the oracle failed for in the natal loop
    pos_a,    \* line 319
    pos_b,    \* line 320
    inter_lines,       \* line 322
    summary,  \* the aspect lines of the summary, line 374
    date_s,   \* the date field of the record
    time_s,   \* the time field of the record
    city,     \* the place field of the record
    tz_jd,    \* what convert_local_to_jd_with_tz returned (lines 211, 309)
    jd,       \* the instant used for the chart (lines 211-215, 309-312)
    text,     \* the line handed to parse_input_flexible
    parsed,   \* what parse_input_flexible returned, or the error raised
    user_data,  \* context.user_data of the conversation
    log,      \* the updates of the conversation handled so far
    reply,    \* what the last handler sent to the user
    computed  \* what the last handler computed

aspectVars == <<a, b, diff, mood>>

chartVars == <<jd_a, jd_b, idx, planet_positions, planet_signs, faults,
               pos_a, pos_b, inter_lines, summary>>

timeVars == <<date_s, time_s, city, tz_jd, jd>>

parseVars == <<text, parsed>>

sessionVars == <<user_data, log, reply, computed>>

vars == <<pc, aspectVars, chartVars, timeVars, parseVars, sessionVars>>

notAspect == <<chartVars, timeVars, parseVars, sessionVars>>

notChart == <<aspectVars, timeVars, parseVars, sessionVars>>

notTime == <<aspectVars, chartVars, parseVars, sessionVars>>

notParse == <<aspectVars, chartVars, timeVars, sessionVars>>

notSession == <<aspectVars, chartVars, timeVars, parseVars>>

\* Python's None, a number, and an exception on its way up, as values of
\* one shape.
None == [kind |-> "none"]

Num(x) == [kind |-> "num", val |-> x]

Raise == [kind |-> "raise"]

IsNum(v) == v.kind = "num"

Abs(x) == IF x < 0 THEN -x ELSE x

----------------------------------------------------------------------------
(* Synastry aspect engine: separation and label of one pair of longitudes. *)

\* Bound: the longitudes tried run from -LonSlack to 359 + LonSlack.
LonSlack == 12

Longitudes == (0 - LonSlack) .. (359 + LonSlack)

\* A slip: the absolute value left out.
SeparationSigned(x, y) == ((x - y + 180) % 360) - 180

\* A slip: the half turn subtracted but never added.
SeparationUnshifted(x, y) == Abs(((x - y) % 360) - 180)

\* line 328: diff = abs((a - b + 180) % 360 - 180); Python's % with a
\* positive modulus is never negative, as is TLC's.
Separation(x, y) == Abs(((x - y + 180) % 360) - 180)

\* A slip: the square's width taken as 8, like the three templates before it.
MoodWideSquare(d) ==
    IF d < 8 THEN "Conjunction"
    ELSE IF Abs(d - 180) < 8 THEN "Opposition"
    ELSE IF Abs(d - 120) < 8 THEN "Trine"
    ELSE IF Abs(d - 90) < 8 THEN "Square"
    ELSE IF Abs(d - 60) < 6 THEN "Sextile"
    ELSE "Minor"

\* lines 330-341: the if/elif chain, strict comparisons.
Mood(d) ==
    IF d < 8 THEN "Conjunction"
    ELSE IF Abs(d - 180) < 8 THEN "Opposition"
    ELSE IF Abs(d - 120) < 8 THEN "Trine"
    ELSE IF Abs(d - 90) < 7 THEN "Square"
    ELSE IF Abs(d - 60) < 6 THEN "Sextile"
    ELSE "Minor"

AspectIdle == a = 0 /\ b = 0 /\ diff = -1 /\ mood = "unset"

ChartIdle ==
    /\ jd_a = 1 /\ jd_b = 1 /\ idx = 1
    /\ planet_positions = <<>> /\ planet_signs = <<>> /\ faults = {}
    /\ pos_a = <<>> /\ pos_b = <<>>
    /\ inter_lines = <<>> /\ summary = <<>>

TimeIdle ==
    /\ date_s = <<>> /\ time_s = <<>> /\ city = "" /\ tz_jd = None /\ jd = None

ParseIdle == text = <<>> /\ parsed = None

\* lines 383, 394: user_data.clear() leaves neither key; a key that is not
\* set reads as None ("None" for the mode, which is a text when set).
EmptySession == [mode |-> "None", syn_a |-> None]

SessionIdle ==
    /\ user_data = EmptySession /\ log = <<>> /\ reply = <<>>
    /\ computed = None

InitAspect ==
    /\ pc = "aspect"
    /\ a \in Longitudes
    /\ b \in Longitudes
    /\ diff = -1
    /\ mood = "unset"
    /\ ChartIdle /\ TimeIdle /\ ParseIdle /\ SessionIdle

\* lines 328-341 for one body whose two longitudes are a and b.
Classify ==
    /\ pc = "aspect"
    /\ diff' = Separation(a, b)
    /\ mood' = Mood(Separation(a, b))
    /\ pc' = "classified"
    /\ UNCHANGED <<a, b>>
    /\ UNCHANGED notAspect

NextAspect == Classify

SpecAspect == InitAspect /\ [][NextAspect]_vars

----------------------------------------------------------------------------
(* The table of aspect templates of the specification (4.5), in its order  *)
(* of precedence.                                                          *)

AspectTemplates ==
    << [name |-> "Conjunction", center |-> 0,   tolerance |-> 8],
       [name |-> "Opposition",  center |-> 180, tolerance |-> 8],
       [name |-> "Trine",       center |-> 120, tolerance |-> 8],
       [name |-> "Square",      center |-> 90,  tolerance |-> 7],
       [name |-> "Sextile",     center |-> 60,  tolerance |-> 6] >>

InWindow(d, t, inclusive) ==
    IF inclusive THEN Abs(d - t.center) <= t.tolerance
    ELSE Abs(d - t.center) < t.tolerance

FirstMatch(d, inclusive) ==
    LET hits == {i \in 1..Len(AspectTemplates) :
                    InWindow(d, AspectTemplates[i], inclusive)}
    IN  IF hits = {} THEN "Minor"
        ELSE AspectTemplates[CHOOSE i \in hits : \A j \in hits : i <= j].name

\* C1 as stated: the label of every separation is the first template, in
\* the table's order, with |diff - center| <= tolerance (bounds inclusive),
\* and the minor aspect when none matches.
C1_FirstMatchInclusive ==
    pc = "classified" => mood = FirstMatch(diff, TRUE)

\* C1 amended: the label of every separation in [0,180] is the first
\* template, in the table's order, with |diff - center| < tolerance (bounds
\* exclusive), the minor aspect when none matches; 0 is Conjunction, 180 is
\* Opposition, 60 is Sextile and 84 is Square.
C1_FirstMatchExclusive ==
    pc = "classified" =>
        /\ mood = FirstMatch(diff, FALSE)
        /\ (diff = 0 => mood = "Conjunction")
        /\ (diff = 180 => mood = "Opposition")
        /\ (diff = 60 => mood = "Sextile")
        /\ (diff = 84 => mood = "Square")

\* A separation on a template's edge has been labelled (8 is not a
\* conjunction) and so has 84.
C1_Witness ==
    /\ pc = "classified"
    /\ diff = 84
    /\ mood = "Square"

\* The circular distance of two longitudes, computed without the shift by
\* 180: the shorter of the two arcs between them.
ArcDistance(x, y) ==
    LET r == (x - y) % 360
    IN  IF r <= 180 THEN r ELSE 360 - r

\* C10: the separation is in [0,180] for all longitudes, also those outside
\* [0,360), is the same in both orders, is the shorter arc between the two
\* (so correct across 0/360), and separation(350, 10) = 20.
C10_Separation ==
    pc = "classified" =>
        /\ diff \in 0..180
        /\ diff = Separation(b, a)
        /\ diff = ArcDistance(a, b)
        /\ (a = 350 /\ b = 10 => diff = 20)

\* separation(350, 10) has been computed across the wraparound.
C10_Witness ==
    /\ pc = "classified"
    /\ a = 350
    /\ b = 10
    /\ diff = 20

----------------------------------------------------------------------------
(* Position resolver: the natal loop and the synastry loops over PLANETS.  *)

\* lines 40-48: the tracked bodies, in the dict's (insertion) order.
PLANETS == <<"Sun", "Moon", "Mercury", "Venus", "Mars", "Jupiter", "Saturn">>

Bodies == {PLANETS[k] : k \in 1..Len(PLANETS)}

\* lines 51-54: the twelve signs, by index.
ZODIAC_SIGNS ==
    <<"Aries", "Taurus", "Gemini", "Cancer", "Leo", "Virgo",
      "Libra", "Scorpio", "Sagittarius", "Capricorn", "Aquarius", "Pisces">>

\* lines 105-107: int(degree // 30) % 12, floor division.
get_zodiac_sign(degree) == ZODIAC_SIGNS[((degree \div 30) % 12) + 1]

\* The longitudes swe.calc_ut hands back (line 115) at three instants, as
\* the oracle gives them: not reduced to [0,360).
Ephemeris ==
    << [Sun |-> 10,  Moon |-> 350, Mercury |-> 100, Venus |-> 200,
        Mars |-> 0,   Jupiter |-> 45,  Saturn |-> 300],
       [Sun |-> 370, Moon |-> 170, Mercury |-> 220, Venus |-> 290,
        Mars |-> 60,  Jupiter |-> 53,  Saturn |-> -60],
       [Sun |-> 18,  Moon |-> 357, Mercury |-> 193, Venus |-> 20,
        Mars |-> 120, Jupiter |-> 150, Saturn |-> 359] >>

Instants == 1..Len(Ephemeris)

\* line 115: what swe.calc_ut(jd, code) may do: raise, or return the
\* longitude as ([lon, lat, dist], retflag), as (lon, lat, dist), as a
\* scalar, or return something that holds no number (text, an empty tuple).
calc_ut(tjd, name) ==
    {[kind |-> "raise"], [kind |-> "text"], [kind |-> "empty"]}
    \cup {[kind |-> k, lon |-> Ephemeris[tjd][name]] :
             k \in {"nested", "flat", "scalar"}}

\* A slip: no try/except around the call and the decoding.
safe_calc_ut_uncaught(res) ==
    IF res.kind \in {"nested", "flat", "scalar"} THEN Num(res.lon) ELSE Raise

\* lines 109-130: the longitude, None on any exception (the call's own,
\* res[0] of an empty tuple, float() of a text).
safe_calc_ut(res) ==
    IF res.kind = "raise" THEN None
    ELSE IF res.kind \in {"nested", "flat"} THEN Num(res.lon)
    ELSE IF res.kind = "empty" THEN None
    ELSE IF res.kind = "scalar" THEN Num(res.lon)
    ELSE None

InitChart ==
    /\ pc \in {"natal", "synastry"}
    /\ jd_a \in Instants
    /\ jd_b \in (IF pc = "natal" THEN {1} ELSE Instants)
    /\ idx = 1
    /\ planet_positions = <<>> /\ planet_signs = <<>> /\ faults = {}
    /\ pos_a = <<>> /\ pos_b = <<>>
    /\ inter_lines = <<>> /\ summary = <<>>
    /\ AspectIdle /\ TimeIdle /\ ParseIdle /\ SessionIdle

\* lines 219-228: one turn of the loop of generate_natal_chart_and_summary.
NatalBody ==
    /\ pc = "natal"
    /\ idx <= Len(PLANETS)
    /\ \E res \in calc_ut(jd_a, PLANETS[idx]) :
          LET name == PLANETS[idx]
              lon  == safe_calc_ut(res)
          IN  IF lon = Raise
              THEN /\ pc' = "natal_raised"
                   /\ UNCHANGED <<idx, planet_positions, planet_signs, faults>>
              ELSE /\ planet_positions' = planet_positions @@
                        (name :> (IF lon = None THEN None
                                  ELSE Num(lon.val % 360)))
                   /\ planet_signs' = planet_signs @@
                        (name :> (IF lon = None THEN "None"
                                  ELSE get_zodiac_sign(lon.val % 360)))
                   /\ faults' = IF res.kind \in {"raise", "text", "empty"}
                                THEN faults \cup {name} ELSE faults
                   /\ idx' = idx + 1
                   /\ pc' = pc
    /\ UNCHANGED <<jd_a, jd_b, pos_a, pos_b, inter_lines, summary>>
    /\ UNCHANGED notChart

\* lines 230-284: the drawing and the summary read the maps and return.
NatalReturn ==
    /\ pc = "natal"
    /\ idx > Len(PLANETS)
    /\ pc' = "natal_done"
    /\ UNCHANGED chartVars
    /\ UNCHANGED notChart

\* lines 293-298: the two natal charts are computed first; their loops
\* catch every failure of the oracle, and their results are not used again.
SynCharts ==
    /\ pc = "synastry"
    /\ pc' = "pos_a"
    /\ UNCHANGED chartVars
    /\ UNCHANGED notChart

\* lines 313-317: one turn of the loop of get_positions_from_person; the
\* longitude is stored as safe_calc_ut returned it.
PositionsBody(pos, tjd) ==
    \E res \in calc_ut(tjd, PLANETS[idx]) :
        LET lon == safe_calc_ut(res)
        IN  IF lon = Raise
            THEN /\ pc' = "synastry_raised"
                 /\ pos' = pos
                 /\ idx' = idx
            ELSE /\ pos' = pos @@ (PLANETS[idx] :> lon)
                 /\ idx' = IF idx = Len(PLANETS) THEN 1 ELSE idx + 1
                 /\ pc' = IF idx < Len(PLANETS) THEN pc
                          ELSE IF pc = "pos_a" THEN "pos_b" ELSE "aspects"

\* line 319
PositionsA ==
    /\ pc = "pos_a"
    /\ PositionsBody(pos_a, jd_a)
    /\ UNCHANGED <<jd_a, jd_b, planet_positions, planet_signs, faults,
                   pos_b, inter_lines, summary>>
    /\ UNCHANGED notChart

\* line 320
PositionsB ==
    /\ pc = "pos_b"
    /\ PositionsBody(pos_b, jd_b)
    /\ UNCHANGED <<jd_a, jd_b, planet_positions, planet_signs, faults,
                   pos_a, inter_lines, summary>>
    /\ UNCHANGED notChart

\* A slip: a body is skipped only when both sides are unresolved.
SkipsBodyBoth(x, y) == x = None /\ y = None

\* line 326: if a is None or b is None: continue
SkipsBody(x, y) == x = None \/ y = None

\* lines 323-342: one turn of the aspect loop. Arithmetic on None raises a
\* TypeError, which line 378 turns into the ValueError of line 379.
AspectBody ==
    /\ pc = "aspects"
    /\ idx <= Len(PLANETS)
    /\ LET eng == PLANETS[idx]
           x   == pos_a[eng]
           y   == pos_b[eng]
       IN  IF SkipsBody(x, y)
           THEN /\ idx' = idx + 1
                /\ UNCHANGED <<pc, inter_lines>>
           ELSE IF ~IsNum(x) \/ ~IsNum(y)
           THEN /\ pc' = "synastry_raised"
                /\ UNCHANGED <<idx, inter_lines>>
           ELSE /\ inter_lines' = Append(inter_lines,
                    [body |-> eng,
                     diff |-> Separation(x.val, y.val),
                     mood |-> Mood(Separation(x.val, y.val))])
                /\ idx' = idx + 1
                /\ pc' = pc
    /\ UNCHANGED <<jd_a, jd_b, planet_positions, planet_signs, faults,
                   pos_a, pos_b, summary>>
    /\ UNCHANGED notChart

\* line 374: inter_lines[:40]
SummaryLimit == 40

Take(seq, n) == SubSeq(seq, 1, IF Len(seq) < n THEN Len(seq) ELSE n)

\* lines 344-376: the diagram reads pos_a and pos_b; the summary joins the
\* first SummaryLimit aspect lines.
SynReturn ==
    /\ pc = "aspects"
    /\ idx > Len(PLANETS)
    /\ summary' = Take(inter_lines, SummaryLimit)
    /\ pc' = "synastry_done"
    /\ UNCHANGED <<jd_a, jd_b, idx, planet_positions, planet_signs, faults,
                   pos_a, pos_b, inter_lines>>
    /\ UNCHANGED notChart

NextChart ==
    \/ NatalBody
    \/ NatalReturn
    \/ SynCharts
    \/ PositionsA
    \/ PositionsB
    \/ AspectBody
    \/ SynReturn

SpecChart == InitChart /\ [][NextChart]_vars

Resolved(pos) == {n \in DOMAIN pos : IsNum(pos[n])}

\* C4: when the oracle throws, or returns what holds no number, for exactly
\* one of the 7 bodies, the natal computation completes without raising and
\* its map has one entry per body, 6 resolved and the failed one unresolved;
\* until then every body already visited has its entry, failed or not.
C4_OneFailure ==
    /\ pc # "natal_raised"
    /\ pc = "natal" =>
          DOMAIN planet_positions = {PLANETS[k] : k \in 1..(idx - 1)}
    /\ (pc = "natal_done" /\ Cardinality(faults) = 1) =>
          /\ DOMAIN planet_positions = Bodies
          /\ Cardinality(Resolved(planet_positions)) = 6
          /\ \A n \in Bodies : planet_positions[n] = None <=> n \in faults

\* The oracle failed for the Moon alone and the five bodies after it were
\* resolved.
C4_Witness ==
    /\ pc = "natal_done"
    /\ faults = {"Moon"}
    /\ planet_positions["Moon"] = None
    /\ \A n \in Bodies \ {"Moon"} : IsNum(planet_positions[n])

InRange(pos) == \A n \in Resolved(pos) : pos[n].val \in 0..359

\* C6 as stated: every resolved longitude held in a position map is in
\* [0,360), in the natal map and in the two maps the synastry builds.
C6_AllMapsReduced ==
    /\ InRange(planet_positions)
    /\ InRange(pos_a)
    /\ InRange(pos_b)

\* The bodies resolved on both sides, in the order of PLANETS.
Shared == SelectSeq(PLANETS, LAMBDA n : IsNum(pos_a[n]) /\ IsNum(pos_b[n]))

\* C7: the synastry never fails on an unresolved body and returns one record
\* per body resolved in both maps, in the order of PLANETS; each record holds
\* that body's separation; the summary drops none of them.
C7_RecordPerSharedBody ==
    /\ pc # "synastry_raised"
    /\ pc = "synastry_done" =>
          /\ Len(inter_lines) = Len(Shared)
          /\ \A k \in 1..Len(inter_lines) :
                /\ inter_lines[k].body = Shared[k]
                /\ inter_lines[k].diff =
                      ArcDistance(pos_a[Shared[k]].val, pos_b[Shared[k]].val)
          /\ summary = inter_lines

\* A synastry returned with the Moon unresolved on one side only and
\* skipped, and the bodies after it reported.
C7_Witness ==
    /\ pc = "synastry_done"
    /\ pos_a["Moon"] = None
    /\ IsNum(pos_b["Moon"])
    /\ Len(inter_lines) = 6
    /\ inter_lines[1].body = "Sun"
    /\ inter_lines[2].body = "Mercury"

\* The two maps agree on every body resolved in both.
SameLongitudes == \A n \in Bodies :
    (IsNum(pos_a[n]) /\ IsNum(pos_b[n])) => pos_a[n] = pos_b[n]

\* C12: when the two records' resolved longitudes are identical, the
\* synastry's aspect sequence holds every body resolved on both sides, each
\* with separation 0 and the category Conjunction.
C12_IdenticalChartsConjunct ==
    (pc = "synastry_done" /\ SameLongitudes) =>
        /\ {inter_lines[k].body : k \in 1..Len(inter_lines)} =
              {n \in Bodies : IsNum(pos_a[n]) /\ IsNum(pos_b[n])}
        /\ \A k \in 1..Len(inter_lines) :
              /\ inter_lines[k].diff = 0
              /\ inter_lines[k].mood = "Conjunction"

\* A synastry of two records of the same instant returned with all 7 bodies
\* resolved on both sides and Saturn, at -60 on both, reported.
C12_Witness ==
    /\ pc = "synastry_done"
    /\ jd_a = 2 /\ jd_b = 2
    /\ \A n \in Bodies : IsNum(pos_a[n]) /\ pos_a[n] = pos_b[n]
    /\ Len(inter_lines) = 7
    /\ inter_lines[7] = [body |-> "Saturn", diff |-> 0, mood |-> "Conjunction"]

----------------------------------------------------------------------------
(* Strings: sequences of one-character strings.                            *)

Digits == <<"0", "1", "2", "3", "4", "5", "6", "7", "8", "9">>

IsDigit(c) == \E k \in 1..10 : Digits[k] = c

DigitValue(c) == (CHOOSE k \in 1..10 : Digits[k] = c) - 1

RECURSIVE DecValue(_)
DecValue(s) ==
    IF s = <<>> THEN 0
    ELSE DecValue(SubSeq(s, 1, Len(s) - 1)) * 10 + DigitValue(s[Len(s)])

\* int(s) of a text of digits and other printable characters: the number
\* when s is one or more digits, a ValueError otherwise.
int(s) ==
    IF s # <<>> /\ \A k \in 1..Len(s) : IsDigit(s[k])
    THEN Num(DecValue(s)) ELSE Raise

\* lines 102-103: re.sub(r"\D", "", s)
clean_number(s) == SelectSeq(s, IsDigit)

\* str.split(sep) for a one-character separator.
RECURSIVE Split(_, _)
Split(s, sep) ==
    LET hits == {k \in 1..Len(s) : s[k] = sep}
    IN  IF hits = {} THEN <<s>>
        ELSE LET k == CHOOSE h \in hits : \A g \in hits : h <= g
             IN  <<SubSeq(s, 1, k - 1)>> \o Split(SubSeq(s, k + 1, Len(s)), sep)

Dec2(n) == <<Digits[(n \div 10) + 1], Digits[(n % 10) + 1]>>

Dec4(n) == Dec2(n \div 100) \o Dec2(n % 100)

----------------------------------------------------------------------------
(* Temporal normalizer: convert_local_to_jd_with_tz and the naive path.    *)

\* lines 85-97, the Cyrillic names transliterated.
CITY_TIMEZONE ==
    ("Kostanay" :> "Asia/Almaty") @@ ("Almaty" :> "Asia/Almaty") @@
    ("Astana" :> "Asia/Nur-Sultan") @@ ("Nur-Sultan" :> "Asia/Nur-Sultan") @@
    ("Moskva" :> "Europe/Moscow") @@ ("Sankt-Peterburg" :> "Europe/Moscow") @@
    ("London" :> "Europe/London") @@ ("Nyu-York" :> "America/New_York") @@
    ("Karachi" :> "Asia/Karachi") @@ ("Karachi (cyr)" :> "Asia/Karachi")

\* The zones of the IANA database among the names used here, each with its
\* standard and summer offset from UTC in minutes in the years tried; the
\* database has no Asia/Nur-Sultan (nor Asia/Astana). It is what
\* pytz.all_timezones lists (line 173) and what ZoneInfo and pytz.timezone
\* load (lines 180-182).
ZoneRules ==
    ("Asia/Almaty" :> <<360, 420>>) @@ ("Europe/Moscow" :> <<180, 240>>) @@
    ("Europe/London" :> <<0, 60>>) @@ ("America/New_York" :> <<-300, -240>>) @@
    ("Asia/Karachi" :> <<300, 300>>) @@ ("UTC" :> <<0, 0>>)

all_timezones == DOMAIN ZoneRules

\* The offset of local wall-clock time in zone tz: summer time from April
\* to October (of the months tried, July), standard time otherwise.
utcoffset(tz, month) ==
    IF month \in 4..10 THEN ZoneRules[tz][2] ELSE ZoneRules[tz][1]

IsLeap(y) == (y % 4 = 0 /\ y % 100 # 0) \/ y % 400 = 0

DaysInMonth(y, m) ==
    IF m = 2 THEN (IF IsLeap(y) THEN 29 ELSE 28)
    ELSE IF m \in {4, 6, 9, 11} THEN 30 ELSE 31

\* line 183: datetime(year, month, day, hour, minute) raises a ValueError
\* unless every field is in its range.
ValidDatetime(y, m, d, h, mi) ==
    /\ y \in 1..9999
    /\ m \in 1..12
    /\ d \in 1..DaysInMonth(y, m)
    /\ h \in 0..23
    /\ mi \in 0..59

\* line 184: local_dt.astimezone(UTC): the wall-clock fields of the same
\* moment at offset 0, the date carried over midnight, month and year ends.
astimezone_utc(y, m, d, h, mi, off) ==
    LET total == h * 60 + mi - off
        carry == total \div 1440
        rest  == total % 1440
        date  == IF carry = 0 THEN <<y, m, d>>
                 ELSE IF carry < 0
                 THEN (IF d > 1 THEN <<y, m, d - 1>>
                       ELSE IF m > 1 THEN <<y, m - 1, DaysInMonth(y, m - 1)>>
                       ELSE <<y - 1, 12, 31>>)
                 ELSE (IF d < DaysInMonth(y, m) THEN <<y, m, d + 1>>
                       ELSE IF m < 12 THEN <<y, m + 1, 1>>
                       ELSE <<y + 1, 1, 1>>)
    IN  [year |-> date[1], month |-> date[2], day |-> date[3],
         hour |-> rest \div 60, minute |-> rest % 60]

\* swe.julday(year, month, day, hour) of lines 186 and 215 (Gregorian), in
\* minutes, the hour given as minutes of the day: (julian day - 2451000)
\* * 1440, which keeps the numbers of the years tried within 32 bits.
julday(year, month, day, minutes) ==
    LET u  == IF month < 3 THEN year - 1 ELSE year
        u0 == u + 4712
        u1 == IF month + 1 < 4 THEN month + 13 ELSE month + 1
        u2 == (u \div 100) - (u \div 400)
    IN  (((u0 * 1461) \div 4) + ((306 * u1) \div 10) + day - u2 - 61
         - 2451000) * 1440 - 720 + minutes

\* A slip: an unknown place is given a default zone.
ResolveZoneDefault(c) ==
    IF c \in DOMAIN CITY_TIMEZONE THEN CITY_TIMEZONE[c]
    ELSE IF c \in all_timezones THEN c ELSE "UTC"

\* lines 170-175: the zone name of the place, "" when there is none.
ResolveZone(c) ==
    IF c \in DOMAIN CITY_TIMEZONE THEN CITY_TIMEZONE[c]
    ELSE IF c \in all_timezones THEN c ELSE ""

\* lines 170-187, the body of the try: the instant, None when the place has
\* no zone, or the exception raised on the way.
tz_aware(d, t, c) ==
    LET tz_name == ResolveZone(c)
        dp == Split(d, ".")
        tp == Split(t, ":")
    IN  IF tz_name = "" THEN None
        ELSE IF Len(dp) # 3 \/ \E k \in 1..Len(dp) : int(dp[k]) = Raise
        THEN Raise
        ELSE IF Len(tp) # 2 \/ \E k \in 1..Len(tp) : int(tp[k]) = Raise
        THEN Raise
        ELSE IF tz_name \notin all_timezones THEN Raise
        ELSE LET day    == int(dp[1]).val
                 month  == int(dp[2]).val
                 year   == int(dp[3]).val
                 hour   == int(tp[1]).val
                 minute == int(tp[2]).val
             IN  IF ~ValidDatetime(year, month, day, hour, minute) THEN Raise
                 ELSE LET u == astimezone_utc(year, month, day, hour, minute,
                                              utcoffset(tz_name, month))
                      IN  Num(julday(u.year, u.month, u.day,
                                     u.hour * 60 + u.minute))

\* A slip: the except clause of lines 188-190 left out.
convert_uncaught(d, t, c) == tz_aware(d, t, c)

\* lines 164-190: any exception of the body gives None.
convert_local_to_jd_with_tz(d, t, c) ==
    IF tz_aware(d, t, c) = Raise THEN None ELSE tz_aware(d, t, c)

\* lines 201-208 (and 307-308): the five numbers, each sub-field stripped
\* of its non-digits; a missing or empty sub-field raises.
parse_numbers(d, t) ==
    LET dp == Split(d, ".")
        tp == Split(t, ":")
    IN  IF Len(dp) < 3 \/ Len(tp) < 2 THEN Raise
        ELSE IF \E k \in 1..3 : clean_number(dp[k]) = <<>> THEN Raise
        ELSE IF \E k \in 1..2 : clean_number(tp[k]) = <<>> THEN Raise
        ELSE [kind |-> "fields",
              day    |-> DecValue(clean_number(dp[1])),
              month  |-> DecValue(clean_number(dp[2])),
              year   |-> DecValue(clean_number(dp[3])),
              hour   |-> DecValue(clean_number(tp[1])),
              minute |-> DecValue(clean_number(tp[2]))]

\* Bound: the years tried are 1999 (a common year) .. 1999 + YearSpan
\* (2000, a leap year).
YearSpan == 1

Dot == <<".">>

Colon == <<":">>

DayTexts == {Dec2(d) : d \in {1, 28, 29, 30, 31}} \cup {<<"1", "a">>, <<>>}

MonthTexts == {Dec2(m) : m \in {1, 2, 7, 12, 13}}

YearTexts == {Dec4(y) : y \in 1999..(1999 + YearSpan)}

DateTexts ==
    {d \o Dot \o m \o Dot \o y :
        d \in DayTexts, m \in MonthTexts, y \in YearTexts}
    \cup {Dec2(1) \o Dot \o Dec2(2),
          Dec2(1) \o Dot \o Dec2(2) \o Dot \o Dec4(1999) \o Dot \o Dec2(5)}

HourTexts == {Dec2(h) : h \in {0, 3, 14, 23, 24}} \cup {<<"7", "h">>}

MinuteTexts == {Dec2(m) : m \in {0, 30, 60}}

TimeTexts ==
    {h \o Colon \o m : h \in HourTexts, m \in MinuteTexts}
    \cup {Dec2(14), Dec2(14) \o Colon \o Dec2(30) \o Colon \o Dec2(15)}

\* The table's places, two zone names given as the place, an unknown place
\* and no place.
Places == DOMAIN CITY_TIMEZONE \cup {"Europe/Moscow", "UTC", "Parizh", ""}

InitTime ==
    /\ pc = "time"
    /\ date_s \in DateTexts
    /\ time_s \in TimeTexts
    /\ city \in Places
    /\ tz_jd = None
    /\ jd = None
    /\ AspectIdle /\ ChartIdle /\ ParseIdle /\ SessionIdle

\* lines 201-215 of generate_natal_chart_and_summary, and the same steps at
\* lines 307-312 of get_positions_from_person.
ToInstant ==
    /\ pc = "time"
    /\ LET f == parse_numbers(date_s, time_s)
           r == convert_local_to_jd_with_tz(date_s, time_s, city)
       IN  IF f = Raise
           THEN /\ pc' = "time_format_error"
                /\ UNCHANGED <<tz_jd, jd>>
           ELSE IF r = Raise
           THEN /\ pc' = "time_escaped"
                /\ UNCHANGED <<tz_jd, jd>>
           ELSE /\ tz_jd' = r
                /\ jd' = IF r = None
                         THEN Num(julday(f.year, f.month, f.day,
                                         f.hour * 60 + f.minute))
                         ELSE r
                /\ pc' = "time_done"
    /\ UNCHANGED <<date_s, time_s, city>>
    /\ UNCHANGED notTime

NextTime == ToInstant

SpecTime == InitTime /\ [][NextTime]_vars

\* The date is DD.MM.YYYY and the time HH:MM, all digits, and they name a
\* day of the calendar and a minute of the day.
ValidDateTime ==
    LET dp == Split(date_s, ".")
        tp == Split(time_s, ":")
    IN  /\ Len(dp) = 3 /\ Len(tp) = 2
        /\ \A k \in 1..3 : IsNum(int(dp[k]))
        /\ \A k \in 1..2 : IsNum(int(tp[k]))
        /\ ValidDatetime(int(dp[3]).val, int(dp[2]).val, int(dp[1]).val,
                         int(tp[1]).val, int(tp[2]).val)

\* The naive instant: the julian day of the calendar date as given, with
\* decimal hour hour + minute/60.
NaiveInstant ==
    LET f == parse_numbers(date_s, time_s)
    IN  julday(f.year, f.month, f.day, f.hour * 60 + f.minute)

\* Local to UTC done on the instant, not on the calendar fields: the naive
\* instant less the zone's offset.
IndependentUtc(tz) ==
    NaiveInstant - utcoffset(tz, parse_numbers(date_s, time_s).month)

\* C2 as stated: for every valid date and time and every place that is a
\* key of CITY_TIMEZONE, the instant used is the local time converted to
\* UTC with the zone's rules; no table entry ends up on the naive path.
C2_TableEntriesConverted ==
    (pc = "time_done" /\ city \in DOMAIN CITY_TIMEZONE /\ ValidDateTime) =>
        /\ IsNum(tz_jd)
        /\ jd = Num(IndependentUtc(CITY_TIMEZONE[city]))

\* The part of C2 that holds: the table's entries whose zone the timezone
\* database knows are converted, across midnight, month and year ends.
C2_KnownZonesConverted ==
    (/\ pc = "time_done"
     /\ city \in DOMAIN CITY_TIMEZONE
     /\ CITY_TIMEZONE[city] \in all_timezones
     /\ ValidDateTime) =>
        /\ tz_jd = jd
        /\ jd = Num(IndependentUtc(CITY_TIMEZONE[city]))

C5_FallbackNeverRaises ==
    /\ pc # "time_escaped"
    /\ pc = "time_format_error" => parse_numbers(date_s, time_s) = Raise
    /\ (pc # "time" /\ parse_numbers(date_s, time_s) # Raise) =>
          (pc = "time_done" /\ IsNum(jd))
    /\ (pc = "time_done" /\ tz_aware(date_s, time_s, city) = Raise) =>
          (tz_jd = None /\ jd = Num(NaiveInstant))

\* 31.02.2000 in Moscow: datetime() raised inside the normalizer and the
\* naive instant was used.
C5_Witness ==
    /\ pc = "time_done"
    /\ city = "Moskva"
    /\ date_s = Dec2(31) \o Dot \o Dec2(2) \o Dot \o Dec4(2000)
    /\ tz_aware(date_s, time_s, city) = Raise
    /\ tz_jd = None
    /\ IsNum(jd)

----------------------------------------------------------------------------
(* Input parser: parse_input_flexible.                                     *)

IsSpace(c) == c = " "

\* str.strip()
RECURSIVE strip(_)
strip(s) ==
    IF s = <<>> THEN s
    ELSE IF IsSpace(s[1]) THEN strip(Tail(s))
    ELSE IF IsSpace(s[Len(s)]) THEN strip(SubSeq(s, 1, Len(s) - 1))
    ELSE s

\* [p.strip() for p in parts]
StripAll(parts) == [k \in 1..Len(parts) |-> strip(parts[k])]

\* line 140: re.split(r"[;,]\s*", text): a field ends at a comma or a
\* semicolon, and the whitespace that follows the delimiter goes with it.
RECURSIVE re_split(_)
re_split(s) ==
    LET hits == {k \in 1..Len(s) : s[k] \in {";", ","}}
    IN  IF hits = {} THEN <<s>>
        ELSE LET k == CHOOSE h \in hits : \A g \in hits : h <= g
                 after == {j \in (k + 1)..Len(s) : ~IsSpace(s[j])}
                 j == IF after = {} THEN Len(s) + 1
                      ELSE CHOOSE h \in after : \A g \in after : h <= g
             IN  <<SubSeq(s, 1, k - 1)>> \o re_split(SubSeq(s, j, Len(s)))

\* line 143: text.split(): the maximal runs of non-whitespace.
RECURSIVE split_whitespace(_)
split_whitespace(s) ==
    LET t == strip(s)
        gaps == {k \in 1..Len(t) : IsSpace(t[k])}
    IN  IF t = <<>> THEN <<>>
        ELSE IF gaps = {} THEN <<t>>
        ELSE LET k == CHOOSE h \in gaps : \A g \in gaps : h <= g
             IN  <<SubSeq(t, 1, k - 1)>>
                 \o split_whitespace(SubSeq(t, k + 1, Len(t)))

\* sep.join(parts)
RECURSIVE join(_, _)
join(sep, parts) ==
    IF parts = <<>> THEN <<>>
    ELSE IF Len(parts) = 1 THEN parts[1]
    ELSE parts[1] \o sep \o join(sep, Tail(parts))

AllDigits(s) == \A k \in 1..Len(s) : IsDigit(s[k])

\* line 147: re.match(r"^\d{1,2}\.\d{1,2}\.\d{4}$", t)
IsDateToken(t) ==
    LET p == Split(t, ".")
    IN  /\ Len(p) = 3
        /\ AllDigits(p[1]) /\ Len(p[1]) \in 1..2
        /\ AllDigits(p[2]) /\ Len(p[2]) \in 1..2
        /\ AllDigits(p[3]) /\ Len(p[3]) = 4

\* line 149: re.match(r"^\d{1,2}:\d{2}$", t)
IsTimeToken(t) ==
    LET p == Split(t, ":")
    IN  /\ Len(p) = 2
        /\ AllDigits(p[1]) /\ Len(p[1]) \in 1..2
        /\ AllDigits(p[2]) /\ Len(p[2]) = 2

\* line 155: the placeholder of an empty name or place (Russian for
\* "unknown"), transliterated.
Unknown == <<"N", "e", "i", "z", "v", "e", "s", "t", "n", "o">>

Record(n, d, t, c) ==
    [kind |-> "record", name |-> n, date |-> d, time |-> t, city |-> c]

\* A slip: no placeholder, a record without a name or a place is refused.
scan_tokens_strict(s) ==
    LET tokens == split_whitespace(s)
        dates  == {k \in 1..Len(tokens) : IsDateToken(tokens[k])}
    IN  IF dates = {} THEN Raise
        ELSE LET i == CHOOSE h \in dates : \A g \in dates : h <= g
             IN  IF /\ i + 1 <= Len(tokens) /\ IsTimeToken(tokens[i + 1])
                    /\ i > 1 /\ i + 2 <= Len(tokens)
                 THEN Record(join(<<" ">>, SubSeq(tokens, 1, i - 1)),
                             tokens[i], tokens[i + 1],
                             join(<<" ">>, SubSeq(tokens, i + 2, Len(tokens))))
                 ELSE Raise

\* lines 143-156: the scan of the whitespace-separated tokens; the loop
\* stops at the first date token.
scan_tokens(s) ==
    LET tokens == split_whitespace(s)
        dates  == {k \in 1..Len(tokens) : IsDateToken(tokens[k])}
    IN  IF dates = {} THEN Raise
        ELSE LET i == CHOOSE h \in dates : \A g \in dates : h <= g
             IN  IF i + 1 <= Len(tokens) /\ IsTimeToken(tokens[i + 1])
                 THEN LET name == strip(join(<<" ">>, SubSeq(tokens, 1, i - 1)))
                          town == strip(join(<<" ">>,
                                     SubSeq(tokens, i + 2, Len(tokens))))
                      IN  Record(IF name = <<>> THEN Unknown ELSE name,
                                 tokens[i], tokens[i + 1],
                                 IF town = <<>> THEN Unknown ELSE town)
                 ELSE Raise

\* lines 158-162
FromParts(parts) ==
    Record(parts[1], parts[2], parts[3],
           strip(join(<<",", " ">>, SubSeq(parts, 4, Len(parts)))))

\* A slip: the semicolon is a delimiter from the start.
parse_both_delimiters(s) ==
    IF Len(re_split(s)) >= 4 THEN FromParts(StripAll(re_split(s)))
    ELSE scan_tokens(s)

\* lines 132-162
parse_input_flexible(s) ==
    IF Len(Split(s, ",")) >= 4 THEN FromParts(StripAll(Split(s, ",")))
    ELSE IF Len(re_split(s)) >= 4 THEN FromParts(StripAll(re_split(s)))
    ELSE scan_tokens(s)

\* Bound: a text is at most MaxPieces pieces long.
MaxPieces == 7

\* The pieces texts are made of: a word, a date, a time, and the three
\* separators; two words never touch.
Words ==
    { <<"A">>,
      <<"1", ".", "2", ".", "2", "0", "0", "0">>,
      <<"3", ":", "0", "4">> }

Separators == { <<",">>, <<";">>, <<" ">> }

Pieces == Words \cup Separators

InitParse ==
    /\ pc = "typing"
    /\ text = <<>>
    /\ parsed = None
    /\ AspectIdle /\ ChartIdle /\ TimeIdle /\ SessionIdle

\* The sender's line grows by one piece.
Type ==
    /\ pc = "typing"
    /\ Len(text) < MaxPieces
    /\ \E p \in Pieces :
          /\ ~(p \in Words /\ text # <<>> /\ text[Len(text)] \in Words)
          /\ text' = Append(text, p)
    /\ UNCHANGED <<pc, parsed>>
    /\ UNCHANGED notParse

Flatten(pieces) == join(<<>>, pieces)

\* lines 429, 452, 463: the line is handed to parse_input_flexible.
Parse ==
    /\ pc = "typing"
    /\ parsed' = parse_input_flexible(Flatten(text))
    /\ pc' = "parsed"
    /\ UNCHANGED text
    /\ UNCHANGED notParse

NextParse == Type \/ Parse

SpecParse == InitParse /\ [][NextParse]_vars

Line == Flatten(text)

\* The n-th smallest member of a set of positions.
Nth(S, n) == CHOOSE k \in S : Cardinality({j \in S : j < k}) = n - 1

\* The text without its leading and trailing blanks.
Trimmed(s) ==
    LET solid == {k \in 1..Len(s) : s[k] # " "}
    IN  IF solid = {} THEN <<>>
        ELSE SubSeq(s, Nth(solid, 1), Nth(solid, Cardinality(solid)))

\* The fields of a text whose delimiters are the characters of D, trimmed.
FieldsOf(s, D) ==
    LET cuts == {k \in 1..Len(s) : s[k] \in D}
        n    == Cardinality(cuts)
    IN  [f \in 1..(n + 1) |->
            Trimmed(SubSeq(s,
                           IF f = 1 THEN 1 ELSE Nth(cuts, f - 1) + 1,
                           IF f = n + 1 THEN Len(s) ELSE Nth(cuts, f) - 1))]

\* Fields 4 and up, rejoined with ", ".
RECURSIVE Rejoined(_, _)
Rejoined(F, k) ==
    IF k > Len(F) THEN <<>>
    ELSE IF k = Len(F) THEN F[k]
    ELSE F[k] \o <<",", " ">> \o Rejoined(F, k + 1)

RecordOf(F) == Record(F[1], F[2], F[3], Trimmed(Rejoined(F, 4)))

\* C8 as stated: whenever the text has at least 4 fields separated by commas
\* and/or semicolons, in any mix, the result is (field 1, field 2, field 3,
\* the remaining fields rejoined with ", "), each field trimmed.
C8_SplitsOnEitherDelimiter ==
    (pc = "parsed" /\ Len(FieldsOf(Line, {",", ";"})) >= 4) =>
        parsed = RecordOf(FieldsOf(Line, {",", ";"}))

\* C8 amended: parse splits on commas, and on commas and semicolons only
\* when the commas give fewer than 4 fields; whenever the text has at least
\* 4 comma-separated fields, or failing that at least 4 fields separated by
\* commas and/or semicolons, the result is (field 1, field 2, field 3, the
\* remaining fields rejoined with ", " and trimmed), each field trimmed.
C8_CommasFirst ==
    pc = "parsed" =>
        IF Len(FieldsOf(Line, {","})) >= 4
        THEN parsed = RecordOf(FieldsOf(Line, {","}))
        ELSE Len(FieldsOf(Line, {",", ";"})) >= 4 =>
                parsed = RecordOf(FieldsOf(Line, {",", ";"}))

\* "A,1.2.2000,3:04,A" has been parsed into its four fields.
C8_Witness ==
    /\ pc = "parsed"
    /\ text = << <<"A">>, <<",">>, <<"1", ".", "2", ".", "2", "0", "0", "0">>,
                 <<",">>, <<"3", ":", "0", "4">>, <<",">>, <<"A">> >>
    /\ parsed = Record(<<"A">>, <<"1", ".", "2", ".", "2", "0", "0", "0">>,
                       <<"3", ":", "0", "4">>, <<"A">>)

\* The whitespace-separated tokens of a text, by their first and last
\* characters.
TokensOf(s) ==
    LET starts == {k \in 1..Len(s) :
                      s[k] # " " /\ (k = 1 \/ s[k - 1] = " ")}
        ends   == {k \in 1..Len(s) :
                      s[k] # " " /\ (k = Len(s) \/ s[k + 1] = " ")}
    IN  [n \in 1..Cardinality(starts) |->
            SubSeq(s, Nth(starts, n), Nth(ends, n))]

\* Tokens from..to, joined by single blanks.
RECURSIVE Spaced(_, _, _)
Spaced(T, from, to) ==
    IF from > to THEN <<>>
    ELSE IF from = to THEN T[from]
    ELSE T[from] \o <<" ">> \o Spaced(T, from + 1, to)

FewerThanFour == Len(FieldsOf(Line, {",", ";"})) < 4

\* The positions of a date token followed by a time token.
DateTimePairs(T) ==
    {k \in 1..(Len(T) - 1) : IsDateToken(T[k]) /\ IsTimeToken(T[k + 1])}

\* C9 as stated: with fewer than 4 delimited fields, parse returns (the
\* tokens before, the date token, the time token, the tokens after) of a
\* date token followed by a time token; it fails when there is no such pair
\* or when fewer than 4 fields can be recovered (no name or no place).
C9_PairOrFormatError ==
    (pc = "parsed" /\ FewerThanFour) =>
        LET T == TokensOf(Line)
            pairs == DateTimePairs(T)
        IN  IF pairs = {} THEN parsed = Raise
            ELSE LET k == Nth(pairs, 1)
                 IN  IF k = 1 \/ k + 1 = Len(T) THEN parsed = Raise
                     ELSE parsed = Record(Spaced(T, 1, k - 1), T[k], T[k + 1],
                                          Spaced(T, k + 2, Len(T)))

\* C9 amended: with fewer than 4 delimited fields, parse looks at the first
\* DD.MM.YYYY token only: when an HH:MM token follows it directly, parse
\* returns (the tokens before it, or the placeholder when there are none;
\* the date token; the time token; the tokens after, or the placeholder when
\* there are none); when there is no date token, or the first one is not
\* followed by a time token, parse fails with a format error.
C9_FirstDateToken ==
    (pc = "parsed" /\ FewerThanFour) =>
        LET T == TokensOf(Line)
            dates == {k \in 1..Len(T) : IsDateToken(T[k])}
        IN  IF dates = {} THEN parsed = Raise
            ELSE LET k == Nth(dates, 1)
                 IN  IF k = Len(T) \/ ~IsTimeToken(T[k + 1])
                     THEN parsed = Raise
                     ELSE parsed =
                            Record(IF k = 1 THEN Unknown
                                   ELSE Spaced(T, 1, k - 1),
                                   T[k], T[k + 1],
                                   IF k + 1 = Len(T) THEN Unknown
                                   ELSE Spaced(T, k + 2, Len(T)))

\* "A 1.2.2000 3:04 A", with no delimiter, has been parsed by the scan.
C9_Witness ==
    /\ pc = "parsed"
    /\ text = << <<"A">>, <<" ">>, <<"1", ".", "2", ".", "2", "0", "0", "0">>,
                 <<" ">>, <<"3", ":", "0", "4">>, <<" ">>, <<"A">> >>
    /\ parsed = Record(<<"A">>, <<"1", ".", "2", ".", "2", "0", "0", "0">>,
                       <<"3", ":", "0", "4">>, <<"A">>)

----------------------------------------------------------------------------
(* The conversation: cmd_start, callback_query_handler and message_router  *)
(* over context.user_data. The handlers of one conversation run one after  *)
(* the other; what they send to Telegram is taken to arrive.               *)

\* Bound: the number of updates of the conversation.
MaxUpdates == 4

\* callback_data of the buttons (lines 384-385, 406-407, 438-439, 477-478).
MODE_NATAL == <<"m", "o", "d", "e", "_", "n", "a", "t", "a", "l">>

MODE_SYNASTRY ==
    <<"m", "o", "d", "e", "_", "s", "y", "n", "a", "s", "t", "r", "y">>

MENU == <<"m", "e", "n", "u">>

Buttons == {MODE_NATAL, MODE_SYNASTRY, MENU}

\* query.data of a callback: a button's, another text that starts with
\* "mode_", or none at all (line 393: query.data or "").
CallbackData == Buttons \cup {<<"m", "o", "d", "e", "_", "x">>, <<>>}

\* line 412: data.startswith(prefix)
StartsWith(s, prefix) ==
    Len(s) >= Len(prefix) /\ SubSeq(s, 1, Len(prefix)) = prefix

\* line 413: data.split("_", 1)[1], the text after the first separator.
AfterFirst(s, sep) ==
    LET k == CHOOSE j \in 1..Len(s) :
                 s[j] = sep /\ \A i \in 1..(j - 1) : s[i] # sep
    IN  SubSeq(s, k + 1, Len(s))

\* One thing sent to the user; e is the text of the exception it quotes.
Reply(k) == [kind |-> k, e |-> ""]

Error(k, e) == [kind |-> k, e |-> e]

\* An exception on its way up, with its text: "format" is the ValueError of
\* line 156, "date_time" that of line 208, "one_of_charts" that of line 298.
ValueError(e) == [kind |-> "raise", e |-> e]

\* A handler returned: the session it left, what it sent, what it computed.
Return(ud, sent, c) ==
    [kind |-> "return", user_data |-> ud, reply |-> sent, computed |-> c]

\* A slip: the session is left as it was.
keep(ud) == ud

\* context.user_data.clear()
clear(ud) == EmptySession

\* lines 381-387
cmd_start(ud) == Return(clear(ud), <<Reply("greeting")>>, None)

\* A slip: the branch of lines 412-420 alone, which sets the mode over the
\* session as it stands.
callback_query_handler_repeat(ud, data) ==
    IF StartsWith(data, <<"m", "o", "d", "e", "_">>)
    THEN LET m == AfterFirst(data, "_")
         IN  IF m = <<"n", "a", "t", "a", "l">>
             THEN Return([ud EXCEPT !.mode = "natal_one"],
                         <<Reply("ask_natal_again")>>, None)
             ELSE IF m = <<"s", "y", "n", "a", "s", "t", "r", "y">>
             THEN Return([ud EXCEPT !.mode = "syn_a"],
                         <<Reply("ask_first_again")>>, None)
             ELSE Return(ud, <<>>, None)
    ELSE Return(ud, <<>>, None)

\* lines 390-420
callback_query_handler(ud, data) ==
    IF data = MODE_NATAL
    THEN Return([clear(ud) EXCEPT !.mode = "natal_one"],
                <<Reply("ask_natal")>>, None)
    ELSE IF data = MODE_SYNASTRY
    THEN Return([clear(ud) EXCEPT !.mode = "syn_a"],
                <<Reply("ask_first")>>, None)
    ELSE IF data = MENU
    THEN Return(clear(ud), <<Reply("menu")>>, None)
    ELSE IF StartsWith(data, <<"m", "o", "d", "e", "_">>)
    THEN LET m == AfterFirst(data, "_")
         IN  IF m = <<"n", "a", "t", "a", "l">>
             THEN Return([ud EXCEPT !.mode = "natal_one"],
                         <<Reply("ask_natal_again")>>, None)
             ELSE IF m = <<"s", "y", "n", "a", "s", "t", "r", "y">>
             THEN Return([ud EXCEPT !.mode = "syn_a"],
                         <<Reply("ask_first_again")>>, None)
             ELSE Return(ud, <<>>, None)
    ELSE Return(ud, <<>>, None)

\* lines 193-284 as its caller sees it: the ValueError of line 208 when the
\* date or time fields hold no number, the chart otherwise (the loop and the
\* drawing after line 208 raise nothing, see SpecChart and SpecTime).
generate_natal_chart_and_summary(d, t, c) ==
    IF parse_numbers(d, t) = Raise THEN ValueError("date_time")
    ELSE [kind |-> "chart", date |-> d, time |-> t, city |-> c]

\* lines 287-379 as its caller sees it: lines 294-298 turn a failure of
\* either chart into a ValueError; the rest raises nothing, see SpecChart.
compute_synastry_and_summary(person_a, person_b) ==
    IF \/ generate_natal_chart_and_summary(person_a.date, person_a.time,
                                           person_a.city).kind = "raise"
       \/ generate_natal_chart_and_summary(person_b.date, person_b.time,
                                           person_b.city).kind = "raise"
    THEN ValueError("one_of_charts")
    ELSE [kind |-> "synastry", a |-> person_a, b |-> person_b]

\* A slip: an except clause that matches no exception raised here.
CaughtNone(r) == FALSE

\* lines 443, 457, 481: except Exception matches every exception of a try
\* body.
Caught(r) == r.kind = "raise"

\* The try bodies below take p, what parse_input_flexible made of the
\* stripped text at their first line (429, 452, 463): the record, or Raise.

\* lines 428-442: the try body of the natal mode.
natal_one_try(ud, p) ==
    IF p = Raise THEN ValueError("format")
    ELSE LET chart == generate_natal_chart_and_summary(p.date, p.time,
                                                       p.city)
         IN  IF chart.kind = "raise" THEN chart
             ELSE Return(clear(ud),
                         <<Reply("photo"), Reply("summary"),
                           Reply("choose")>>,
                         [kind |-> "natal", person |-> p])

\* lines 451-456: the try body of the first step of the synastry.
syn_a_try(ud, p) ==
    IF p = Raise THEN ValueError("format")
    ELSE Return([ud EXCEPT !.syn_a = p, !.mode = "syn_b"],
                <<Reply("ask_second")>>, None)

\* lines 462-480: the try body of the second step of the synastry.
syn_b_try(ud, p) ==
    LET person_a == ud.syn_a
    IN  IF p = Raise THEN ValueError("format")
        ELSE IF person_a = None
        THEN Return(clear(ud), <<Reply("no_first")>>, None)
        ELSE LET syn == compute_synastry_and_summary(person_a, p)
             IN  IF syn.kind = "raise" THEN syn
                 ELSE Return(clear(ud),
                             <<Reply("photo"), Reply("summary"),
                               Reply("choose")>>,
                             syn)

\* lines 424-488
message_router(ud, p) ==
    IF ud.mode = "natal_one"
    THEN LET r == natal_one_try(ud, p)
         IN  IF Caught(r)
             THEN Return(clear(ud), <<Error("chart_error", r.e)>>, None)
             ELSE r
    ELSE IF ud.mode = "syn_a"
    THEN LET r == syn_a_try(ud, p)
         IN  IF Caught(r)
             THEN Return(ud, <<Error("format_error", r.e)>>, None)
             ELSE r
    ELSE IF ud.mode = "syn_b"
    THEN LET r == syn_b_try(ud, p)
         IN  IF Caught(r)
             THEN Return(clear(ud), <<Error("synastry_error", r.e)>>, None)
             ELSE r
    ELSE Return(ud, <<Reply("press_start")>>, None)

\* The lines a user sends: a full line with commas, a date and a time with
\* blanks around them, a line with no date, and a line whose date field
\* holds no digit.
LinePersonA ==
    <<"A", ",", "1", ".", "2", ".", "2", "0", "0", "0", ",",
      "3", ":", "0", "4", ",", "A">>

LinePersonB ==
    <<" ", "1", ".", "2", ".", "2", "0", "0", "0", " ", "3", ":", "0", "4",
      " ">>

LineNoDate == <<"A">>

LineNoDigits == <<"A", ",", "A", ",", "3", ":", "0", "4", ",", "A">>

Lines == {LinePersonA, LinePersonB, LineNoDate, LineNoDigits}

\* One update as the log keeps it, with the session it met.
Event(kind, data, line) ==
    [update |-> kind, data |-> data, text |-> line,
     mode |-> user_data.mode, stored |-> user_data.syn_a]

InitSession ==
    /\ pc = "serving"
    /\ user_data = EmptySession
    /\ log = <<>>
    /\ reply = <<>>
    /\ computed = None
    /\ AspectIdle /\ ChartIdle /\ TimeIdle /\ ParseIdle

\* What a handler did becomes the state; an exception that leaves the
\* handler is recorded and ends the run.
Handled(o) ==
    IF o.kind = "raise"
    THEN /\ pc' = "handler_escaped"
         /\ UNCHANGED <<user_data, reply, computed>>
    ELSE /\ pc' = pc
         /\ user_data' = o.user_data
         /\ reply' = o.reply
         /\ computed' = o.computed

\* line 494: the user sends /start.
Start ==
    /\ pc = "serving"
    /\ Len(log) < MaxUpdates
    /\ log' = Append(log, Event("start", <<>>, <<>>))
    /\ Handled(cmd_start(user_data))
    /\ UNCHANGED notSession

\* line 495: the user presses a button.
Callback ==
    /\ pc = "serving"
    /\ Len(log) < MaxUpdates
    /\ \E data \in CallbackData :
          /\ log' = Append(log, Event("callback", data, <<>>))
          /\ Handled(callback_query_handler(user_data, data))
    /\ UNCHANGED notSession

\* line 496: the user sends a line of text; line 423 strips it, and the
\* branch taken hands it to parse_input_flexible.
Message ==
    /\ pc = "serving"
    /\ Len(log) < MaxUpdates
    /\ \E t \in Lines :
          \E p \in {parse_input_flexible(strip(t))} :
              /\ log' = Append(log, Event("message", <<>>, t))
              /\ Handled(message_router(user_data, p))
    /\ UNCHANGED notSession

NextSession == Start \/ Callback \/ Message

SpecSession == InitSession /\ [][NextSession]_vars

\* The update handled last.
Last == log[Len(log)]

\* Whether a date and a time hold the five numbers of line 202-206.
NoNumbers(p) == parse_numbers(p.date, p.time) = Raise

\* The failure, if any, that parsing the line of a message or computing
\* from it meets in the mode the message was received in: which exception
\* text, or "" when there is none.
FailureOf(ev) ==
    LET p == parse_input_flexible(Trimmed(ev.text))
    IN  IF p = Raise THEN "format"
        ELSE IF ev.mode = "natal_one" /\ NoNumbers(p) THEN "date_time"
        ELSE IF ev.mode = "syn_b" /\ ev.stored # None
                /\ (NoNumbers(ev.stored) \/ NoNumbers(p))
        THEN "one_of_charts"
        ELSE ""

ErrorHead(m) ==
    IF m = "natal_one" THEN "chart_error"
    ELSE IF m = "syn_a" THEN "format_error"
    ELSE "synastry_error"

\* C11: no failure of parsing or computing leaves message_router: in each
\* of the modes natal_one, syn_a and syn_b and for every line, the handler
\* returns, and when parsing or computing failed what it sent is the one
\* error reply of that mode quoting the exception; the conversation goes on.
C11_FailureNeverEscapes ==
    /\ pc = "serving"
    /\ (/\ log # <<>>
        /\ Last.update = "message"
        /\ Last.mode \in {"natal_one", "syn_a", "syn_b"}
        /\ FailureOf(Last) # "") =>
           reply = <<Error(ErrorHead(Last.mode), FailureOf(Last))>>

\* The synastry button, a good first line, then a second line whose date
\* holds no digit: compute_synastry_and_summary raised at line 298, the user
\* got the synastry error reply, and a later message was served.
C11_Witness ==
    /\ pc = "serving"
    /\ Len(log) = 4
    /\ log[1].update = "callback" /\ log[1].data = MODE_SYNASTRY
    /\ log[2].update = "message" /\ log[2].text = LinePersonA
    /\ log[3].update = "message" /\ log[3].text = LineNoDigits
    /\ log[3].mode = "syn_b"
    /\ FailureOf(log[3]) = "one_of_charts"
    /\ log[4].update = "message" /\ log[4].mode = "None"
    /\ reply = <<Reply("press_start")>>

\* The update is /start or the press of one of the bot's buttons.
Resets(ev) ==
    ev.update = "start" \/ (ev.update = "callback" /\ ev.data \in Buttons)

\* C13: after any sequence of /start commands, button presses and lines,
\* the mode is syn_b only while the first person's parsed record is stored;
\* a synastry is computed only from a record parsed from a message received
\* in mode syn_a and a record parsed from a later message received in mode
\* syn_b, with no /start and no button between them; and /start and every
\* button leave no first record stored.
C13_SynastryOrder ==
    /\ user_data.mode = "syn_b" =>
          /\ user_data.syn_a # None
          /\ user_data.syn_a.kind = "record"
    /\ computed.kind = "synastry" =>
          /\ Last.update = "message"
          /\ Last.mode = "syn_b"
          /\ computed.b = parse_input_flexible(Trimmed(Last.text))
          /\ \E i \in 1..(Len(log) - 1) :
                /\ log[i].update = "message"
                /\ log[i].mode = "syn_a"
                /\ computed.a = parse_input_flexible(Trimmed(log[i].text))
                /\ \A k \in (i + 1)..(Len(log) - 1) : ~Resets(log[k])
    /\ (log # <<>> /\ Resets(Last)) => user_data.syn_a = None

\* The synastry button, the first person's line, the second person's line:
\* the synastry was computed from the two records in that order.
C13_Witness ==
    /\ Len(log) = 3
    /\ log[1].update = "callback" /\ log[1].data = MODE_SYNASTRY
    /\ log[2].text = LinePersonA /\ log[2].mode = "syn_a"
    /\ log[3].text = LinePersonB /\ log[3].mode = "syn_b"
    /\ log[3].stored = Record(<<"A">>,
                              <<"1", ".", "2", ".", "2", "0", "0", "0">>,
                              <<"3", ":", "0", "4">>, <<"A">>)
    /\ computed = [kind |-> "synastry", a |-> log[3].stored,
                   b |-> Record(Unknown,
                                <<"1", ".", "2", ".", "2", "0", "0", "0">>,
                                <<"3", ":", "0", "4">>, Unknown)]
    /\ user_data = EmptySession

\* C14: whenever message_router has handled a message received in mode
\* natal_one or syn_b, the session holds no mode and no first person, whether
\* the computation succeeded or failed, and a text message that comes next
\* gets the press-/start reply alone; a message received in mode syn_a whose
\* line does not parse leaves the session as it was: mode syn_a, no first
\* person stored.
C14_SessionAfterMessage ==
    /\ (/\ log # <<>>
        /\ Last.update = "message"
        /\ Last.mode \in {"natal_one", "syn_b"}) =>
           user_data = EmptySession
    /\ (/\ Len(log) >= 2
        /\ log[Len(log) - 1].update = "message"
        /\ log[Len(log) - 1].mode \in {"natal_one", "syn_b"}
        /\ Last.update = "message") =>
           /\ reply = <<Reply("press_start")>>
           /\ computed = None
    /\ (/\ log # <<>>
        /\ Last.update = "message"
        /\ Last.mode = "syn_a"
        /\ parse_input_flexible(Trimmed(Last.text)) = Raise) =>
           /\ user_data = [mode |-> "syn_a", syn_a |-> None]
           /\ user_data = [mode |-> Last.mode, syn_a |-> Last.stored]

\* The natal button, then a line with no date: the chart failed, the
\* session was emptied, and the good line sent next got the press-/start
\* reply alone.
C14_Witness ==
    /\ Len(log) = 3
    /\ log[1].update = "callback" /\ log[1].data = MODE_NATAL
    /\ log[2].update = "message" /\ log[2].text = LineNoDate
    /\ log[2].mode = "natal_one"
    /\ log[3].update = "message" /\ log[3].text = LinePersonA
    /\ log[3].mode = "None" /\ log[3].stored = None
    /\ reply = <<Reply("press_start")>>
    /\ user_data = EmptySession

====
